---- MODULE Spec2Model ----
(***************************************************************************)
(* Cozempic: team-aware pruning of a session log.                          *)
(*                                                                         *)
(*   team.py   _is_team_message, extract_team_state, inject_team_recovery  *)
(*   guard.py  prune_with_team_protect                                     *)
(*                                                                         *)
(* A log is a sequence of tuples <<line_idx, msg, byte_size>>.  A msg is a *)
(* record whose keys may be absent (a Python dict); dict.get(k, d) is      *)
(* Get(d, k, dflt).  A value that is either a list or a str in the source  *)
(* is tagged: [list |-> <<...>>] or [str |-> <<...>>].  A text is the      *)
(* sequence of its words, so that the keyword pattern is a search over     *)
(* the words of the text and not a flag on the entry.                      *)
(***************************************************************************)
EXTENDS Integers, Sequences, FiniteSets, TLC

VARIABLES
    messages,        \* the loaded log handed to prune_with_team_protect
    pc,              \* position in prune_with_team_protect / extract_team_state
    idx,             \* extract_team_state: index of the entry being scanned
    blk,             \* extract_team_state: index of the block being scanned (0: none)
    scan,            \* extract_team_state: state, seen_teammates, seen_tasks
    team_state,      \* the TeamState extract_team_state returned
    reducer_input,   \* what run_prescription was handed
    reducer_output,  \* what run_prescription returned
    merged,          \* all_messages after the sort, before the injection
    all_messages,    \* the sequence prune_with_team_protect returned
    uuid_counter,    \* number of uuid4() values drawn so far
    session_file,    \* the session file: the entries of its lines, in order
    file0,           \* the session file as it was when the guard started
    gpc,             \* position in guard_prune_cycle
    checkpoints,     \* team-checkpoint.md in the project directory and under home
    events,          \* the calls the current cycle has made, in order
    cycles,          \* prune cycles started
    saves,           \* prune cycles that saved the session file
    exists,          \* the session file exists
    auto_reload,     \* start_guard's auto_reload
    reloading,       \* result["reloading"] of the cycle that returned
    appended,        \* the entries appended since the current cycle loaded the file
    max_turns,       \* generate_recap's max_turns
    recap            \* the lines generate_recap returned

guard_vars == <<session_file, file0, gpc, checkpoints, events, cycles, saves,
                exists, auto_reload, reloading, appended>>

recap_vars == <<max_turns, recap>>

vars == <<messages, pc, idx, blk, scan, team_state, reducer_input,
          reducer_output, merged, all_messages, uuid_counter, guard_vars,
          recap_vars>>

(* ------------------------------ bounds -------------------------------- *)

\* longest log drawn by Init
MaxLen == 3

\* longest session file the guard starts on
MaxGuardLen == 2

\* most prune cycles the guard starts
MaxCycles == 2

\* generate_recap, line 68: the default of max_turns
DefaultMaxTurns == 40

\* largest max_turns drawn for generate_recap
MaxTurns == 7

\* most entries drawn freely at the head of a log handed to generate_recap
MaxRecapPrefix == 2

\* most question and answer exchanges that follow them in that log
MaxExchanges == 8


(* --------------------------- Python helpers --------------------------- *)

None == "<None>"

\* dict.get(k, dflt)
Get(d, k, dflt) == IF k \in DOMAIN d THEN d[k] ELSE dflt

\* truth value of an optional string: None and "" are false
Truthy(v) == v # None /\ v # ""

\* isinstance(v, list) / isinstance(v, str) on a tagged value
IsList(v) == "list" \in DOMAIN v
IsStr(v) == "str" \in DOMAIN v
List(items) == [list |-> items]
Str(words) == [str |-> words]

(* ------------------- team.py: detection patterns ---------------------- *)

\* TEAM_TOOL_NAMES
TEAM_TOOL_NAMES ==
    {"TeamCreate", "TeamDelete", "TeamMessage", "SendMessage",
     "TaskCreate", "TaskUpdate", "TaskList", "TaskGet",
     "SpawnTeammate", "TeamStatus"}

\* re.IGNORECASE: the case folding of the words that occur with capitals
CaseFold(w) ==
    CASE w = "Teammate" -> "teammate"
      [] w = "Teammates" -> "teammates"
      [] w = "TaskUpdate" -> "taskupdate"
      [] w = "TaskCreate" -> "taskcreate"
      [] w = "TeamCreate" -> "teamcreate"
      [] w = "SendMessage" -> "sendmessage"
      [] w = "Active" -> "active"
      [] w = "Agent" -> "agent"
      [] w = "Team" -> "team"
      [] OTHER -> w

\* words that contain a match of one alternative of TEAM_KEYWORDS on their
\* own: team.?name, agent.?id, teammate, team.?lead, SendMessage,
\* TeamCreate, TaskCreate, TaskUpdate, agent.?team
KeywordWords ==
    {"team_name", "teamname", "agent_id", "agentid", "teammate", "teammates",
     "team_lead", "teamlead", "sendmessage", "teamcreate", "taskcreate",
     "taskupdate", "agent_team", "agentteam"}

\* the adjacent pairs without agent.?team
KeywordPairsNoAgentTeam ==
    {<<"team", "name">>, <<"agent", "id">>, <<"team", "lead">>}

\* X.?Y matched across one separator: two adjacent words
KeywordPairs ==
    {<<"team", "name">>, <<"agent", "id">>, <<"team", "lead">>, <<"agent", "team">>}

\* X.+Y: the first word somewhere before the second
KeywordSpans == {<<"spawn", "teammate">>, <<"team", "config">>}

\* TEAM_KEYWORDS.search(text)
TEAM_KEYWORDS_search(text) ==
    \/ \E i \in DOMAIN text : CaseFold(text[i]) \in KeywordWords
    \/ \E i \in DOMAIN text :
          /\ i + 1 \in DOMAIN text
          /\ <<CaseFold(text[i]), CaseFold(text[i + 1])>> \in KeywordPairs
    \/ \E i, j \in DOMAIN text :
          /\ i < j
          /\ <<CaseFold(text[i]), CaseFold(text[j])>> \in KeywordSpans

\* one iteration of the loop over content blocks in _is_team_message
BlockIsTeam(block) ==
    \/ /\ Get(block, "type", None) = "tool_use"
       /\ Get(block, "name", None) \in TEAM_TOOL_NAMES
    \/ /\ Get(block, "type", None) = "tool_result"
       /\ IsStr(Get(block, "content", Str(<<>>)))
       /\ TEAM_KEYWORDS_search(Get(block, "content", Str(<<>>)).str)
    \/ TEAM_KEYWORDS_search(Get(block, "text", <<>>))

_is_team_message(msg_dict) ==
    LET inner == Get(msg_dict, "message", [role |-> None])
        content == Get(inner, "content", List(<<>>))
    IN  IF IsList(content)
        THEN \E b \in DOMAIN content.list : BlockIsTeam(content.list[b])
        ELSE IsStr(content) /\ TEAM_KEYWORDS_search(content.str)

(* ------------------------ team.py: TeamState -------------------------- *)

TeammateInfo(agent_id, name, role, status) ==
    [agent_id |-> agent_id, name |-> name, role |-> role, status |-> status]

TaskInfo(task_id, subject, status, owner, description) ==
    [task_id |-> task_id, subject |-> subject, status |-> status,
     owner |-> owner, description |-> description]

\* a TeamState whose team_name defaults to the name the renderers print
EmptyScanUnnamed ==
    [team_name |-> "unnamed", message_count |-> 0, last_coordination_index |-> -1,
     seen_teammates |-> <<>>, seen_tasks |-> <<>>]

\* TeamState() with the two dicts of extract_team_state beside it.  A dict
\* is the sequence of its values in insertion order; key is the name of
\* the field that holds the key.
EmptyScan ==
    [team_name |-> "", message_count |-> 0, last_coordination_index |-> -1,
     seen_teammates |-> <<>>, seen_tasks |-> <<>>]

HasKey(d, key, k) == \E i \in DOMAIN d : d[i][key] = k

KeyIndex(d, key, k) == CHOOSE i \in DOMAIN d : d[i][key] = k

\* a list in place of the dict: every value is appended
DictAppend(d, key, v) == Append(d, v)

\* d[k] = v: an existing key keeps its place, a new key goes last
DictSet(d, key, v) ==
    IF HasKey(d, key, v[key])
    THEN [d EXCEPT ![KeyIndex(d, key, v[key])] = v]
    ELSE Append(d, v)

\* TeamState.is_empty
is_empty(state) ==
    state.team_name = "" /\ state.teammates = <<>> /\ state.tasks = <<>>

(* -------------------- team.py: extract_team_state --------------------- *)

\* the body of `for tm in inp.get("teammates", [])`
UpsertTeammate(seen, tm) ==
    LET agent_id == Get(tm, "agentId", Get(tm, "agent_id", ""))
        tm_name == Get(tm, "name", agent_id)
        role == Get(tm, "role", Get(tm, "description", ""))
    IN  IF agent_id # ""
        THEN DictSet(seen, "agent_id", TeammateInfo(agent_id, tm_name, role, "running"))
        ELSE seen

RECURSIVE UpsertTeammates(_, _)
UpsertTeammates(seen, tms) ==
    IF tms = <<>> THEN seen
    ELSE UpsertTeammates(UpsertTeammate(seen, Head(tms)), Tail(tms))

\* a name that is kept once it is set
TeamCreateNameFirstWins(current, inp) ==
    IF current # "" THEN current ELSE Get(inp, "name", current)

\* state.team_name = inp.get("name", state.team_name)
TeamCreateName(current, inp) == Get(inp, "name", current)

\* name == "TeamCreate"
OnTeamCreate(s, inp) ==
    [s EXCEPT !.team_name = TeamCreateName(s.team_name, inp),
              !.seen_teammates = UpsertTeammates(s.seen_teammates, Get(inp, "teammates", <<>>))]

\* task_id = inp.get("taskId", inp.get("id", str(len(seen_tasks))))
TaskCreateId(seen_tasks, inp) ==
    Get(inp, "taskId", Get(inp, "id", ToString(Len(seen_tasks))))

\* name in ("TaskCreate",)
OnTaskCreate(s, inp) ==
    LET task_id == TaskCreateId(s.seen_tasks, inp)
        subject == Get(inp, "subject", Get(inp, "title", ""))
    IN  [s EXCEPT !.seen_tasks =
            DictSet(s.seen_tasks, "task_id",
                    TaskInfo(task_id, subject, "pending", Get(inp, "owner", ""),
                             Get(inp, "description", "")))]

\* an update that is dropped when its task id names no recorded task
OnTaskUpdateKnownOnly(s, inp) ==
    LET task_id == Get(inp, "taskId", Get(inp, "id", ""))
    IN  IF HasKey(s.seen_tasks, "task_id", task_id)
        THEN LET i == KeyIndex(s.seen_tasks, "task_id", task_id)
                 old == s.seen_tasks[i]
                 st == IF Truthy(Get(inp, "status", None)) THEN inp.status ELSE old.status
                 ow == IF Truthy(Get(inp, "owner", None)) THEN inp.owner ELSE old.owner
             IN  [s EXCEPT !.seen_tasks[i] = [old EXCEPT !.status = st, !.owner = ow]]
        ELSE s

\* an update that rebuilds the task from its own fields
OnTaskUpdateOverwrite(s, inp) ==
    LET task_id == Get(inp, "taskId", Get(inp, "id", ""))
        task == TaskInfo(task_id, Get(inp, "subject", ""),
                         Get(inp, "status", "unknown"), Get(inp, "owner", ""), "")
    IN  [s EXCEPT !.seen_tasks = DictSet(s.seen_tasks, "task_id", task)]

\* name in ("TaskUpdate",)
OnTaskUpdate(s, inp) ==
    LET task_id == Get(inp, "taskId", Get(inp, "id", ""))
    IN  IF HasKey(s.seen_tasks, "task_id", task_id)
        THEN LET i == KeyIndex(s.seen_tasks, "task_id", task_id)
                 old == s.seen_tasks[i]
                 st == IF Truthy(Get(inp, "status", None)) THEN inp.status ELSE old.status
                 ow == IF Truthy(Get(inp, "owner", None)) THEN inp.owner ELSE old.owner
             IN  [s EXCEPT !.seen_tasks[i] = [old EXCEPT !.status = st, !.owner = ow]]
        ELSE [s EXCEPT !.seen_tasks =
                Append(s.seen_tasks,
                       TaskInfo(task_id, Get(inp, "subject", ""),
                                Get(inp, "status", "unknown"), Get(inp, "owner", ""), ""))]

\* name in ("SendMessage", "TeamMessage")
OnSendMessage(s, inp) ==
    LET target == Get(inp, "to", Get(inp, "agentId", ""))
    IN  IF target # "" /\ HasKey(s.seen_teammates, "agent_id", target)
        THEN [s EXCEPT !.seen_teammates[KeyIndex(s.seen_teammates, "agent_id", target)].status
                           = "running"]
        ELSE s

\* one iteration of `for block in content` in the first loop
ExtractBlock(s, block) ==
    IF Get(block, "type", None) # "tool_use" THEN s
    ELSE LET name == Get(block, "name", "")
             inp == Get(block, "input", <<>>)
         IN  CASE name = "TeamCreate" -> OnTeamCreate(s, inp)
               [] name = "TaskCreate" -> OnTaskCreate(s, inp)
               [] name = "TaskUpdate" -> OnTaskUpdate(s, inp)
               [] name \in {"SendMessage", "TeamMessage"} -> OnSendMessage(s, inp)
               [] OTHER -> s

RECURSIVE ExtractBlocks(_, _)
ExtractBlocks(s, blocks) ==
    IF blocks = <<>> THEN s
    ELSE ExtractBlocks(ExtractBlock(s, Head(blocks)), Tail(blocks))

\* the list of blocks the first loop goes through for an entry: none when
\* the content is not a list
ContentBlocks(msg) ==
    LET content == Get(Get(msg, "message", [role |-> None]), "content", List(<<>>))
    IN  IF IsList(content) THEN content.list ELSE <<>>

\* the index recorded only for the first coordination entry
CountEntryKeepFirst(s, line_idx) ==
    [s EXCEPT !.message_count = @ + 1,
              !.last_coordination_index = IF @ = -1 THEN line_idx ELSE @]

\* state.message_count += 1; state.last_coordination_index = line_idx
CountEntry(s, line_idx) ==
    [s EXCEPT !.message_count = @ + 1, !.last_coordination_index = line_idx]

\* one iteration of `for line_idx, msg, byte_size in messages`, first loop
ExtractEntry(s, entry) ==
    IF ~_is_team_message(entry[2]) THEN s
    ELSE ExtractBlocks(CountEntry(s, entry[1]), ContentBlocks(entry[2]))

RECURSIVE ExtractEntries(_, _)
ExtractEntries(s, entries) ==
    IF entries = <<>> THEN s
    ELSE ExtractEntries(ExtractEntry(s, Head(entries)), Tail(entries))

\* block.get("text", "")[:300]
FragLimit == 300

Truncate(text) == SubSeq(text, 1, IF Len(text) < FragLimit THEN Len(text) ELSE FragLimit)

RECURSIVE TextFragments(_)
TextFragments(blocks) ==
    IF blocks = <<>> THEN <<>>
    ELSE (IF Get(Head(blocks), "type", None) = "text"
          THEN <<Truncate(Get(Head(blocks), "text", <<>>))>> ELSE <<>>)
         \o TextFragments(Tail(blocks))

\* team_msgs of the second loop
RECURSIVE TeamMsgs(_)
TeamMsgs(entries) ==
    IF entries = <<>> THEN <<>>
    ELSE LET msg == Head(entries)[2]
         IN  (IF Get(msg, "type", None) = "assistant" /\ _is_team_message(msg)
              THEN TextFragments(ContentBlocks(msg)) ELSE <<>>)
             \o TeamMsgs(Tail(entries))

\* " [...] ".join(frags)
RECURSIVE Join(_)
Join(frags) ==
    IF frags = <<>> THEN <<>>
    ELSE IF Len(frags) = 1 THEN frags[1]
    ELSE frags[1] \o <<"[...]">> \o Join(Tail(frags))

\* team_msgs[:3]
FirstThree(s) == IF Len(s) <= 3 THEN s ELSE SubSeq(s, 1, 3)

\* team_msgs[-3:]
LastThree(s) == IF Len(s) <= 3 THEN s ELSE SubSeq(s, Len(s) - 2, Len(s))

LeadSummary(entries) == Join(LastThree(TeamMsgs(entries)))

\* lines 241-259: the TeamState returned
FinishState(s, entries) ==
    [team_name |-> s.team_name,
     teammates |-> s.seen_teammates,
     tasks |-> s.seen_tasks,
     lead_summary |-> LeadSummary(entries),
     message_count |-> s.message_count,
     last_coordination_index |-> s.last_coordination_index]

extract_team_state(entries) == FinishState(ExtractEntries(EmptyScan, entries), entries)

(* ------------------- team.py: to_recovery_text ------------------------ *)

\* str.upper on the task statuses
Upper(w) ==
    CASE w = "pending" -> "PENDING"
      [] w = "in_progress" -> "IN_PROGRESS"
      [] w = "completed" -> "COMPLETED"
      [] w = "unknown" -> "UNKNOWN"
      [] OTHER -> w

RECURSIVE TeammateLines(_)
TeammateLines(ts) ==
    IF ts = <<>> THEN <<>>
    ELSE LET t == Head(ts)
         IN  <<t.name, "agent_id", t.agent_id>>
             \o (IF t.role # "" THEN <<t.role>> ELSE <<>>)
             \o <<t.status>> \o TeammateLines(Tail(ts))

RECURSIVE TaskLines(_)
TaskLines(ts) ==
    IF ts = <<>> THEN <<>>
    ELSE LET t == Head(ts)
         IN  <<Upper(t.status), t.subject>>
             \o (IF t.owner # "" THEN <<"owner", t.owner>> ELSE <<>>)
             \o TaskLines(Tail(ts))

to_recovery_text(state) ==
    <<"Active", "agent", "team", IF state.team_name # "" THEN state.team_name ELSE "unnamed">>
    \o (IF state.teammates # <<>> THEN <<"Teammates">> \o TeammateLines(state.teammates) ELSE <<>>)
    \o (IF state.tasks # <<>> THEN <<"Shared", "task", "list">> \o TaskLines(state.tasks) ELSE <<>>)
    \o (IF state.lead_summary # <<>>
        THEN <<"Coordination", "context">> \o state.lead_summary ELSE <<>>)

(* ------------------ team.py: inject_team_recovery --------------------- *)

\* str(uuid_mod.uuid4()): the n-th value drawn; no two draws agree and none
\* agrees with a uuid the log was loaded with
Uuid4(n) == "uuid4-" \o ToString(n)

\* datetime.now().isoformat()
Now == "now"

\* the scan run forwards: the first entry that carries a uuid
RECURSIVE FirstUuidIndexFrom(_, _)
FirstUuidIndexFrom(msgs, i) ==
    IF i > Len(msgs) THEN 0
    ELSE IF Truthy(Get(msgs[i][2], "uuid", None)) THEN i
    ELSE FirstUuidIndexFrom(msgs, i + 1)

FirstUuidIndex(msgs) == FirstUuidIndexFrom(msgs, 1)

\* the last entry, whether it carries a uuid or not
LastIndex(msgs) == Len(msgs)

\* the index of the entry the reversed scan stops at, 0 when it finds none
RECURSIVE LastUuidIndex(_)
LastUuidIndex(msgs) ==
    IF msgs = <<>> THEN 0
    ELSE IF Truthy(Get(msgs[Len(msgs)][2], "uuid", None)) THEN Len(msgs)
    ELSE LastUuidIndex(SubSeq(msgs, 1, Len(msgs) - 1))

\* the position the next entry of a log numbered from 0 without gaps has
CountMinusOne(msgs) == Len(msgs) - 1

\* max(idx for idx, _, _ in messages)
RECURSIVE MaxIdx(_)
MaxIdx(msgs) ==
    IF Len(msgs) = 1 THEN msgs[1][1]
    ELSE LET m == MaxIdx(Tail(msgs))
         IN  IF msgs[1][1] > m THEN msgs[1][1] ELSE m

\* len(json.dumps(msg).encode("utf-8")), in words of content plus keys
JsonSize(msg) ==
    LET content == msg.message.content
    IN  Cardinality(DOMAIN msg)
        + (IF IsStr(content) THEN Len(content.str) ELSE Len(content.list[1].text))

UserMsg(last, user_uuid, recovery_text) ==
    [type |-> "user", uuid |-> user_uuid, parentUuid |-> Get(last, "uuid", None),
     sessionId |-> Get(last, "sessionId", None), timestamp |-> Now,
     cwd |-> Get(last, "cwd", None), gitBranch |-> Get(last, "gitBranch", None),
     isSidechain |-> FALSE, userType |-> "external",
     message |-> [role |-> "user",
                  content |-> Str(<<"Cozempic", "Guard", "Context", "was", "pruned",
                                    "Confirm", "the", "current", "agent", "team",
                                    "state", "below">> \o recovery_text)]]

AssistantMsg(last, assistant_uuid, user_uuid, recovery_text) ==
    [type |-> "assistant", uuid |-> assistant_uuid, parentUuid |-> user_uuid,
     sessionId |-> Get(last, "sessionId", None), timestamp |-> Now,
     cwd |-> Get(last, "cwd", None), gitBranch |-> Get(last, "gitBranch", None),
     isSidechain |-> FALSE, userType |-> "external",
     message |-> [role |-> "assistant",
                  content |-> List(<<[type |-> "text",
                      text |-> <<"Confirmed", "I", "have", "an", "active", "agent", "team">>
                               \o recovery_text
                               \o <<"A", "team", "state", "checkpoint", "was", "also",
                                    "written", "to", ".claude/team-checkpoint.md",
                                    "Continuing", "with", "team", "coordination">>]>>)]]

\* whether inject_team_recovery appends: lines 288-306
Injects(msgs, state) == ~is_empty(state) /\ LastUuidIndex(msgs) # 0

\* n is the number of uuid4() values drawn before the call
inject_team_recovery(msgs, state, n) ==
    IF ~Injects(msgs, state) THEN msgs
    ELSE LET last == msgs[LastUuidIndex(msgs)][2]
             user_uuid == Uuid4(n)
             assistant_uuid == Uuid4(n + 1)
             recovery_text == to_recovery_text(state)
             user_msg == UserMsg(last, user_uuid, recovery_text)
             assistant_msg == AssistantMsg(last, assistant_uuid, user_uuid, recovery_text)
             next_idx == MaxIdx(msgs) + 1
         IN  msgs \o <<<<next_idx, user_msg, JsonSize(user_msg)>>,
                       <<next_idx + 1, assistant_msg, JsonSize(assistant_msg)>>>>

(* ----------------- executor.py: run_prescription ---------------------- *)
(* The Reducer is an external collaborator.  It is a choice among the      *)
(* reducers below: each keeps the entries at the indices in keep, and      *)
(* then leaves them as they are ("same"), renumbers them from 0            *)
(* ("compact"), moves every position up by one ("shift"), returns them     *)
(* in reverse ("reverse") or replaces their content ("trim").              *)

ReducerModes == {"same", "compact", "shift", "reverse", "trim"}

RECURSIVE KeepOnly(_, _, _)
KeepOnly(entries, keep, i) ==
    IF i > Len(entries) THEN <<>>
    ELSE (IF i \in keep THEN <<entries[i]>> ELSE <<>>) \o KeepOnly(entries, keep, i + 1)

Reverse(s) == [i \in 1..Len(s) |-> s[Len(s) + 1 - i]]

Trimmed(msg) ==
    IF "message" \in DOMAIN msg
    THEN [msg EXCEPT !.message.content = Str(<<"trimmed">>)]
    ELSE msg

run_prescription(entries, keep, mode) ==
    LET kept == KeepOnly(entries, keep, 1)
    IN  CASE mode = "same" -> kept
          [] mode = "compact" -> [i \in 1..Len(kept) |-> <<i - 1, kept[i][2], kept[i][3]>>]
          [] mode = "shift" -> [i \in 1..Len(kept) |-> <<kept[i][1] + 1, kept[i][2], kept[i][3]>>]
          [] mode = "reverse" -> Reverse(kept)
          [] mode = "trim" -> [i \in 1..Len(kept) |-> <<kept[i][1], Trimmed(kept[i][2]), 1>>]

(* ---------------- guard.py: prune_with_team_protect -------------------- *)

IsTeamEntry(e) == _is_team_message(e[2])
IsNonTeamEntry(e) == ~_is_team_message(e[2])

\* the loop without its test: every entry goes to the Reducer
AllAsNonTeam(msgs) == msgs

\* the loop of lines 70-75
TeamMessages(msgs) == SelectSeq(msgs, IsTeamEntry)
NonTeamMessages(msgs) == SelectSeq(msgs, IsNonTeamEntry)

\* list.sort(key=lambda m: m[0]): stable, so an entry goes after the
\* entries already placed whose index is not greater
RECURSIVE InsertByIdx(_, _)
InsertByIdx(sorted, e) ==
    IF sorted = <<>> THEN <<e>>
    ELSE IF sorted[Len(sorted)][1] <= e[1] THEN Append(sorted, e)
    ELSE Append(InsertByIdx(SubSeq(sorted, 1, Len(sorted) - 1), e), sorted[Len(sorted)])

RECURSIVE SortFrom(_, _)
SortFrom(sorted, rest) ==
    IF rest = <<>> THEN sorted
    ELSE SortFrom(InsertByIdx(sorted, Head(rest)), Tail(rest))

\* the sort left out
NoSort(s) == s

SortByLineIdx(s) == SortFrom(<<>>, s)

\* the protected entries put after the reduced ones, unsorted
MergeConcat(pruned_non_team, team_messages) == pruned_non_team \o team_messages

\* the protected entries left out of the merge
MergeReducedOnly(pruned_non_team, team_messages) == SortFrom(<<>>, pruned_non_team)

\* lines 81-82
Merge(pruned_non_team, team_messages) == SortByLineIdx(pruned_non_team \o team_messages)

(* ------------------------------ the logs ------------------------------ *)
(* session.load_messages numbers the lines of the file from 0.  Every      *)
(* entry carries its own timestamp; an entry with a uuid carries the       *)
(* session metadata too, which changes along the log.                      *)

ToolUse(name, inp) == [type |-> "tool_use", name |-> name, input |-> inp]
Text(words) == [type |-> "text", text |-> words]
ToolResult(words) == [type |-> "tool_result", content |-> Str(words)]

Variant(type, content, with_uuid) ==
    [type |-> type, content |-> content, with_uuid |-> with_uuid]

MkMsg(v, pos) ==
    IF v.with_uuid
    THEN [type |-> v.type, uuid |-> "u" \o ToString(pos),
          sessionId |-> "s" \o ToString(pos % 2), cwd |-> "/w" \o ToString(pos),
          gitBranch |-> IF pos % 2 = 0 THEN "main" ELSE "dev",
          timestamp |-> "t" \o ToString(pos),
          message |-> [role |-> v.type, content |-> v.content]]
    ELSE [type |-> v.type, timestamp |-> "t" \o ToString(pos),
          message |-> [role |-> v.type, content |-> v.content]]

MkEntry(v, pos) == <<pos, MkMsg(v, pos), 10>>

\* the log that holds the variants choice names, numbered from 0
Log(pool, choice) == [i \in DOMAIN choice |-> MkEntry(pool[choice[i]], i - 1)]

\* entries for the pruning pipeline: chat with and without a uuid, a
\* keyword mention and a message to a teammate that build no team state, a
\* team creation, a task creation that carries no uuid, and team creations
\* that carry a name only, one of them the empty name
PrunePool ==
    << Variant("user", Str(<<"hello">>), TRUE),
       Variant("assistant", List(<<Text(<<"fix", "the", "bug">>)>>), TRUE),
       Variant("user", Str(<<"recap">>), FALSE),
       Variant("user", Str(<<"ask", "the", "Teammate">>), TRUE),
       Variant("assistant",
               List(<<Text(<<"starting", "a", "team">>),
                      ToolUse("TeamCreate",
                              [name |-> "alpha",
                               teammates |-> <<[agentId |-> "a1", name |-> "Ann"]>>])>>),
               TRUE),
       Variant("assistant", List(<<ToolUse("TaskCreate", [subject |-> "B"])>>), FALSE),
       Variant("assistant", List(<<ToolUse("SendMessage", [to |-> "a1"])>>), TRUE),
       Variant("assistant", List(<<ToolUse("TeamCreate", [name |-> "beta"])>>), TRUE),
       Variant("assistant", List(<<ToolUse("TeamCreate", [name |-> ""])>>), TRUE) >>

\* a text one symbol longer than the slice of lead_summary keeps
LongText == <<"a", "teammate">> \o [i \in 1..(FragLimit - 1) |-> "x"]

\* entries for the extractor: every tool invocation it interprets, with the
\* optional keys present, absent and empty
ExtractPool ==
    << Variant("user", Str(<<"hello">>), TRUE),
       Variant("user", Str(<<"team", "name", "please">>), TRUE),
       Variant("assistant",
               List(<<ToolUse("TeamCreate",
                              [name |-> "alpha",
                               teammates |-> <<[agentId |-> "a1", name |-> "Ann", role |-> "dev"],
                                               [agent_id |-> "a2"]>>])>>),
               TRUE),
       Variant("assistant",
               List(<<ToolUse("TeamCreate",
                              [name |-> "beta",
                               teammates |-> <<[agentId |-> "a1", name |-> "Al"],
                                               [name |-> "ghost"]>>])>>),
               TRUE),
       Variant("assistant",
               List(<<ToolUse("TeamCreate",
                              [name |-> "",
                               teammates |-> <<[agentId |-> "", agent_id |-> "a3"]>>])>>),
               TRUE),
       Variant("assistant",
               List(<<ToolUse("TeamCreate", [teammates |-> <<[agent_id |-> "a3"]>>])>>),
               TRUE),
       Variant("assistant",
               List(<<ToolUse("TaskCreate", [id |-> "1", subject |-> "A"])>>), TRUE),
       Variant("assistant",
               List(<<ToolUse("TaskCreate", [subject |-> "B", owner |-> "a1"])>>), TRUE),
       Variant("assistant",
               List(<<ToolUse("TaskCreate", [title |-> "C"]),
                      ToolUse("TaskCreate", [taskId |-> "T9", subject |-> "D"])>>),
               TRUE),
       Variant("assistant",
               List(<<ToolUse("TaskUpdate", [taskId |-> "1", status |-> "in_progress"])>>),
               TRUE),
       Variant("assistant",
               List(<<ToolUse("TaskUpdate", [id |-> "T9", status |-> "", owner |-> "a2"])>>),
               TRUE),
       Variant("assistant",
               List(<<ToolUse("SendMessage", [to |-> "a1"]),
                      ToolUse("TaskUpdate", [taskId |-> "T7", subject |-> "E"])>>),
               TRUE),
       Variant("user", List(<<ToolResult(<<"agent_id", "a1", "done">>)>>), TRUE),
       Variant("assistant",
               List(<<Text(<<"the", "Teammate", "is", "done">>), Text(LongText)>>),
               TRUE) >>

(* ----------------------------- the machine ---------------------------- *)

NoTeamState == FinishState(EmptyScan, <<>>)

\* no checkpoint file in either place: a file is the sequence of its
\* symbols, and a file that was never written is empty
NoCheckpoints == [project |-> <<>>, home |-> <<>>]

InitWith(pool) ==
    /\ \E n \in 0..MaxLen : \E choice \in [1..n -> DOMAIN pool] :
          messages = Log(pool, choice)
    /\ pc = "scan"
    /\ idx = 1
    /\ blk = 0
    /\ scan = EmptyScan
    /\ team_state = NoTeamState
    /\ reducer_input = <<>>
    /\ reducer_output = <<>>
    /\ merged = <<>>
    /\ all_messages = <<>>
    /\ uuid_counter = 0
    /\ session_file = <<>>
    /\ file0 = <<>>
    /\ gpc = "off"
    /\ checkpoints = NoCheckpoints
    /\ events = <<>>
    /\ cycles = 0
    /\ saves = 0
    /\ exists = TRUE
    /\ auto_reload = FALSE
    /\ reloading = FALSE
    /\ appended = <<>>
    /\ max_turns = DefaultMaxTurns
    /\ recap = <<>>

Init == InitWith(PrunePool)

InitExtract == InitWith(ExtractPool)

\* extract_team_state, lines 172-182: the head of one iteration
ScanEntry ==
    /\ pc = "scan"
    /\ blk = 0
    /\ idx <= Len(messages)
    /\ LET entry == messages[idx]
       IN  IF ~_is_team_message(entry[2])
           THEN /\ idx' = idx + 1
                /\ UNCHANGED <<scan, blk>>
           ELSE /\ scan' = CountEntry(scan, entry[1])
                /\ IF ContentBlocks(entry[2]) = <<>>
                   THEN idx' = idx + 1 /\ blk' = 0
                   ELSE idx' = idx /\ blk' = 1
    /\ UNCHANGED <<messages, pc, team_state, reducer_input, reducer_output,
                   merged, all_messages, uuid_counter>>
    /\ UNCHANGED <<guard_vars, recap_vars>>

\* extract_team_state, lines 184-239: one content block
ScanBlock ==
    /\ pc = "scan"
    /\ blk >= 1
    /\ LET blocks == ContentBlocks(messages[idx][2])
       IN  /\ scan' = ExtractBlock(scan, blocks[blk])
           /\ IF blk = Len(blocks)
              THEN idx' = idx + 1 /\ blk' = 0
              ELSE idx' = idx /\ blk' = blk + 1
    /\ UNCHANGED <<messages, pc, team_state, reducer_input, reducer_output,
                   merged, all_messages, uuid_counter>>
    /\ UNCHANGED <<guard_vars, recap_vars>>

\* extract_team_state, lines 241-259
ExtractFinish ==
    /\ pc = "scan"
    /\ blk = 0
    /\ idx > Len(messages)
    /\ team_state' = FinishState(scan, messages)
    /\ pc' = "prune"
    /\ UNCHANGED <<messages, idx, blk, scan, reducer_input, reducer_output,
                   merged, all_messages, uuid_counter>>
    /\ UNCHANGED <<guard_vars, recap_vars>>

\* prune_with_team_protect, lines 61-64: no team, standard pruning
PruneDelegate ==
    /\ pc = "prune"
    /\ is_empty(team_state)
    /\ \E keep \in SUBSET (1..Len(messages)), mode \in ReducerModes :
          /\ reducer_input' = messages
          /\ reducer_output' = run_prescription(messages, keep, mode)
          /\ all_messages' = reducer_output'
    /\ pc' = "done"
    /\ UNCHANGED <<messages, idx, blk, scan, team_state, merged, uuid_counter>>
    /\ UNCHANGED <<guard_vars, recap_vars>>

\* prune_with_team_protect, lines 66-87
PruneProtect ==
    /\ pc = "prune"
    /\ ~is_empty(team_state)
    /\ LET team_messages == TeamMessages(messages)
           non_team_messages == NonTeamMessages(messages)
       IN  \E keep \in SUBSET (1..Len(non_team_messages)), mode \in ReducerModes :
              /\ reducer_input' = non_team_messages
              /\ reducer_output' = run_prescription(non_team_messages, keep, mode)
              /\ merged' = Merge(reducer_output', team_messages)
              /\ all_messages' = inject_team_recovery(merged', team_state, uuid_counter)
              /\ uuid_counter' = IF Injects(merged', team_state)
                                 THEN uuid_counter + 2 ELSE uuid_counter
    /\ pc' = "done"
    /\ UNCHANGED <<messages, idx, blk, scan, team_state>>
    /\ UNCHANGED <<guard_vars, recap_vars>>

\* inject_team_recovery called on the loaded log with the state extracted
\* from it; merged holds the list the caller passed
InjectOnly ==
    /\ pc = "prune"
    /\ merged' = messages
    /\ all_messages' = inject_team_recovery(messages, team_state, uuid_counter)
    /\ uuid_counter' = IF Injects(messages, team_state)
                       THEN uuid_counter + 2 ELSE uuid_counter
    /\ pc' = "injected"
    /\ UNCHANGED <<messages, idx, blk, scan, team_state, reducer_input, reducer_output>>
    /\ UNCHANGED <<guard_vars, recap_vars>>

Next ==
    ScanEntry \/ ScanBlock \/ ExtractFinish \/ PruneDelegate \/ PruneProtect \/ InjectOnly

Spec == Init /\ [][Next]_vars

NextExtract == ScanEntry \/ ScanBlock \/ ExtractFinish

SpecExtract == InitExtract /\ [][NextExtract]_vars

(* ------------------- team.py: write_team_checkpoint ------------------- *)

\* status_icons.get(t.status, " ")
StatusIcon(status) ==
    CASE status = "completed" -> "x"
      [] status = "in_progress" -> "/"
      [] OTHER -> " "

RECURSIVE MarkdownTeammates(_)
MarkdownTeammates(ts) ==
    IF ts = <<>> THEN <<>>
    ELSE LET t == Head(ts)
         IN  <<"-", t.name, t.agent_id>>
             \o (IF t.role # "" THEN <<t.role>> ELSE <<>>)
             \o (IF t.status # "unknown" THEN <<t.status>> ELSE <<>>)
             \o MarkdownTeammates(Tail(ts))

\* a description is one symbol in the model, so description[:200] keeps it
RECURSIVE MarkdownTasks(_)
MarkdownTasks(ts) ==
    IF ts = <<>> THEN <<>>
    ELSE LET t == Head(ts)
         IN  <<"-", StatusIcon(t.status), t.subject>>
             \o (IF t.owner # "" THEN <<t.owner>> ELSE <<>>)
             \o (IF t.description # "" THEN <<t.description>> ELSE <<>>)
             \o MarkdownTasks(Tail(ts))

\* TeamState.to_markdown
to_markdown(state) ==
    <<"#", "Agent", "Team", "Checkpoint",
      IF state.team_name # "" THEN state.team_name ELSE "unnamed", "Generated", Now>>
    \o (IF state.teammates # <<>>
        THEN <<"##", "Teammates">> \o MarkdownTeammates(state.teammates) ELSE <<>>)
    \o (IF state.tasks # <<>>
        THEN <<"##", "Task", "List">> \o MarkdownTasks(state.tasks) ELSE <<>>)
    \o (IF state.lead_summary # <<>>
        THEN <<"##", "Lead", "Context">> \o state.lead_summary ELSE <<>>)
    \o <<"Extracted", "from", ToString(state.message_count), "team-related", "messages">>

\* the checkpoint always goes to the project directory
CheckpointTargetProject(project_dir_exists) == "project"

\* lines 267-272: the file write_team_checkpoint writes
CheckpointTarget(project_dir_exists) ==
    IF project_dir_exists THEN "project" ELSE "home"

(* ---------------------- guard.py: guard_prune_cycle ------------------- *)
(*                                                                        *)
(* load_messages and save_messages are not part of the sources at hand.   *)
(* They are modelled from the specification: load_messages returns one    *)
(* (position, entry, byte size) per line of the file, numbered from 0;    *)
(* save_messages writes the entries of the list it is handed, one per     *)
(* line and in the order of the list, or raises and leaves the file as it *)
(* was.                                                                   *)

\* size of the line that holds an entry, in keys and symbols of content
ByteSize(msg) ==
    LET content == msg.message.content
    IN  Cardinality(DOMAIN msg)
        + (IF IsStr(content) THEN Len(content.str) ELSE Len(content.list))

load_messages(file) == [i \in DOMAIN file |-> <<i - 1, file[i], ByteSize(file[i])>>]

\* the lines save_messages writes
SavedLines(msgs) == [i \in DOMAIN msgs |-> msgs[i][2]]

\* entries of the guarded session: chat with and without a uuid, a team
\* creation that names the team only, and a task creation without a uuid
GuardPool ==
    << Variant("user", Str(<<"hello">>), TRUE),
       Variant("user", Str(<<"recap">>), FALSE),
       Variant("assistant", List(<<ToolUse("TeamCreate", [name |-> "alpha"])>>), TRUE),
       Variant("assistant", List(<<ToolUse("TaskCreate", [subject |-> "B"])>>), FALSE) >>

\* a call the cycle made: what was called, on which file, and whether it
\* returned (for exists: what it returned)
Event(op, path, ok) == [op |-> op, path |-> path, ok |-> ok]

\* a handler around the pruning that lets the cycle go on
ReducerErrorSwallowed == TRUE

\* guard_prune_cycle, lines 190-199: no handler around the pruning
ReducerErrorCaught == FALSE

\* a checkpoint only for a team that has a name
ShouldCheckpointNamed(state) == state.team_name # ""

\* guard_prune_cycle, line 203
ShouldCheckpoint(state) == ~is_empty(state)

\* start_guard, line 111: threshold_bytes, in the unit of ByteSize
threshold_bytes == 8

\* session_path.stat().st_size
RECURSIVE FileSize(_)
FileSize(file) == IF file = <<>> THEN 0 ELSE ByteSize(Head(file)) + FileSize(Tail(file))

\* a poll that never compares the size
ThresholdCrossedAlways(current_size) == TRUE

\* start_guard, line 147: not (current_size < threshold_bytes)
ThresholdCrossed(current_size) == ~(current_size < threshold_bytes)

\* a reload whenever the process is found
ReloadsWhenPidFound(with_auto_reload, claude_pid) == claude_pid

\* guard_prune_cycle, lines 220-224
Reloads(with_auto_reload, claude_pid) == with_auto_reload /\ claude_pid

\* the entry the running assistant appends during cycle n
AppendedEntry(n) ==
    [type |-> "user", uuid |-> "a" \o ToString(n), sessionId |-> "s0", cwd |-> "/w0",
     gitBranch |-> "main", timestamp |-> "ta" \o ToString(n),
     message |-> [role |-> "user", content |-> Str(<<"more">>)]]

InitGuard ==
    /\ \E n \in 0..MaxGuardLen : \E choice \in [1..n -> DOMAIN GuardPool] :
          session_file = SavedLines(Log(GuardPool, choice))
    /\ file0 = session_file
    /\ gpc = "idle"
    /\ checkpoints = NoCheckpoints
    /\ events = <<>>
    /\ cycles = 0
    /\ saves = 0
    /\ exists = TRUE
    /\ auto_reload \in BOOLEAN
    /\ reloading = FALSE
    /\ appended = <<>>
    /\ max_turns = DefaultMaxTurns
    /\ recap = <<>>
    /\ messages = <<>>
    /\ pc = "idle"
    /\ idx = 1
    /\ blk = 0
    /\ scan = EmptyScan
    /\ team_state = NoTeamState
    /\ reducer_input = <<>>
    /\ reducer_output = <<>>
    /\ merged = <<>>
    /\ all_messages = <<>>
    /\ uuid_counter = 0

\* start_guard, lines 136-152: one poll.  The loop ends when the file is
\* gone, sleeps again when the file is below the threshold, and else
\* counts a prune cycle and calls guard_prune_cycle.
GuardPoll ==
    /\ gpc = "idle"
    /\ IF ~exists
       THEN gpc' = "exited" /\ cycles' = cycles
       ELSE IF ~ThresholdCrossed(FileSize(session_file))
       THEN gpc' = "idle" /\ cycles' = cycles
       ELSE /\ cycles < MaxCycles
            /\ cycles' = cycles + 1
            /\ gpc' = "polled"
    /\ UNCHANGED <<messages, pc, idx, blk, scan, team_state, reducer_input,
                   reducer_output, merged, all_messages, uuid_counter,
                   session_file, file0, checkpoints, events, saves,
                   exists, auto_reload, reloading, appended>>
    /\ UNCHANGED recap_vars

\* guard_prune_cycle, lines 190-199: load the session and prune it.  The
\* Reducer returns a sequence or raises; what it raises leaves
\* prune_with_team_protect and guard_prune_cycle.
GuardPrune ==
    /\ gpc = "polled"
    /\ \E loaded \in {load_messages(session_file)} :
       \E state \in {extract_team_state(loaded)} :
       \E input \in {IF is_empty(state) THEN loaded ELSE NonTeamMessages(loaded)} :
       \E keep \in SUBSET (1..Len(input)), mode \in ReducerModes \cup {"raise"} :
       \E raised \in {mode = "raise"} :
       \E failed \in {raised /\ ~ReducerErrorCaught} :
       \E output \in {IF raised THEN <<>> ELSE run_prescription(input, keep, mode)} :
       \E sorted \in {IF failed \/ is_empty(state) THEN <<>>
                      ELSE Merge(output, TeamMessages(loaded))} :
          /\ messages' = loaded
          /\ team_state' = state
          /\ reducer_input' = input
          /\ reducer_output' = output
          /\ merged' = sorted
          /\ all_messages' =
                IF failed THEN <<>>
                ELSE IF is_empty(state) THEN output
                ELSE inject_team_recovery(sorted, state, uuid_counter)
          /\ uuid_counter' =
                IF ~failed /\ Injects(sorted, state)
                THEN uuid_counter + 2 ELSE uuid_counter
          /\ events' = <<Event("load_messages", "session", TRUE),
                         Event("run_prescription", "", ~raised)>>
          /\ gpc' = IF failed THEN "failed" ELSE "pruned"
          /\ pc' = IF failed THEN "raised" ELSE "done"
    /\ appended' = <<>>
    /\ UNCHANGED <<idx, blk, scan, session_file, file0, checkpoints, cycles, saves,
                   exists, auto_reload, reloading>>
    /\ UNCHANGED recap_vars

\* guard_prune_cycle, lines 201-205, with write_team_checkpoint: nothing
\* for an empty team state; else the file is chosen by whether the project
\* directory exists and written, and a write that raises leaves the cycle
GuardCheckpoint ==
    /\ gpc = "pruned"
    /\ IF ~ShouldCheckpoint(team_state)
       THEN /\ gpc' = "checkpointed"
            /\ UNCHANGED <<checkpoints, events>>
       ELSE \E project_dir_exists \in BOOLEAN, written \in BOOLEAN :
               LET path == CheckpointTarget(project_dir_exists)
               IN  /\ events' = events \o <<Event("exists", "project", project_dir_exists),
                                             Event("write_team_checkpoint", path, written)>>
                   /\ checkpoints' = IF written
                                     THEN [checkpoints EXCEPT ![path] = to_markdown(team_state)]
                                     ELSE checkpoints
                   /\ gpc' = IF written THEN "checkpointed" ELSE "failed"
    /\ UNCHANGED <<messages, pc, idx, blk, scan, team_state, reducer_input,
                   reducer_output, merged, all_messages, uuid_counter,
                   session_file, file0, cycles, saves,
                   exists, auto_reload, reloading, appended>>
    /\ UNCHANGED recap_vars

\* guard_prune_cycle, line 208: save_messages writes the pruned list over
\* the file
GuardSave ==
    /\ gpc = "checkpointed"
    /\ \E written \in BOOLEAN :
          /\ events' = Append(events, Event("save_messages", "session", written))
          /\ session_file' = IF written THEN SavedLines(all_messages) ELSE session_file
          /\ saves' = IF written THEN saves + 1 ELSE saves
          /\ gpc' = IF written THEN "saved" ELSE "failed"
    /\ UNCHANGED <<messages, pc, idx, blk, scan, team_state, reducer_input,
                   reducer_output, merged, all_messages, uuid_counter,
                   file0, checkpoints, cycles,
                   exists, auto_reload, reloading, appended>>
    /\ UNCHANGED recap_vars

\* guard_prune_cycle, lines 210-229, and start_guard, lines 165-173: the
\* result.  With auto_reload the process is looked up; when it is found
\* _spawn_reload_watcher is called and the result says reloading, and the
\* loop ends.  Else the loop sleeps until the next poll, the locals of the
\* cycle gone.
GuardReturn ==
    /\ gpc = "saved"
    /\ \E claude_pid \in BOOLEAN :
          /\ reloading' = Reloads(auto_reload, claude_pid)
          /\ IF Reloads(auto_reload, claude_pid)
             THEN /\ gpc' = "exited"
                  /\ events' = events \o <<Event("_find_claude_pid", "", claude_pid),
                                           Event("_spawn_reload_watcher", "", TRUE)>>
                  /\ UNCHANGED <<messages, pc, team_state, reducer_input,
                                 reducer_output, merged, all_messages>>
             ELSE /\ gpc' = "idle"
                  /\ events' = <<>>
                  /\ messages' = <<>>
                  /\ pc' = "idle"
                  /\ team_state' = NoTeamState
                  /\ reducer_input' = <<>>
                  /\ reducer_output' = <<>>
                  /\ merged' = <<>>
                  /\ all_messages' = <<>>
    /\ appended' = <<>>
    /\ UNCHANGED <<idx, blk, scan, uuid_counter, session_file, file0, checkpoints,
                   cycles, saves, exists, auto_reload>>
    /\ UNCHANGED recap_vars

\* the running assistant appends an entry to the session file after the
\* cycle has loaded it and before the cycle saves, one entry in a cycle.
\* What it appends while the guard sleeps is part of the file the next
\* cycle loads, as the entries of the files Init draws are.
AssistantAppend ==
    /\ gpc = "checkpointed"
    /\ exists
    /\ appended = <<>>
    /\ session_file' = Append(session_file, AppendedEntry(cycles))
    /\ appended' = <<AppendedEntry(cycles)>>
    /\ UNCHANGED <<messages, pc, idx, blk, scan, team_state, reducer_input,
                   reducer_output, merged, all_messages, uuid_counter,
                   file0, gpc, checkpoints, events, cycles, saves,
                   exists, auto_reload, reloading>>
    /\ UNCHANGED recap_vars

\* the session file is removed while the guard sleeps
FileDisappears ==
    /\ gpc = "idle"
    /\ exists
    /\ exists' = FALSE
    /\ UNCHANGED <<messages, pc, idx, blk, scan, team_state, reducer_input,
                   reducer_output, merged, all_messages, uuid_counter,
                   session_file, file0, gpc, checkpoints, events, cycles, saves,
                   auto_reload, reloading, appended>>
    /\ UNCHANGED recap_vars

NextGuard ==
    \/ GuardPoll \/ GuardPrune \/ GuardCheckpoint \/ GuardSave \/ GuardReturn
    \/ AssistantAppend \/ FileDisappears

SpecGuard == InitGuard /\ [][NextGuard]_vars

(* --------------------------- recap.py ---------------------------------- *)
(*                                                                        *)
(* A text is a sequence of symbols, as above, and len counts symbols.  A   *)
(* system tag together with what it encloses is one symbol, and so is a    *)
(* punctuation mark; the whitespace between two symbols is not written.    *)
(* get_content_blocks, get_msg_type and text_of are not part of the        *)
(* sources at hand: the blocks are the items of a list content, the type   *)
(* is the entry's "type", and the text of a block is its "text".           *)

get_content_blocks(msg) ==
    LET content == Get(Get(msg, "message", [role |-> None]), "content", List(<<>>))
    IN  IF IsList(content) THEN content.list ELSE <<>>

get_msg_type(msg) == Get(msg, "type", "unknown")

text_of(block) == Get(block, "text", <<>>)

Min(a, b) == IF a < b THEN a ELSE b

\* "..."
Ellipsis == <<".", ".", ".">>

\* lines 12-19: the texts of the text blocks, joined
RECURSIVE BlocksText(_)
BlocksText(blocks) ==
    IF blocks = <<>> THEN <<>>
    ELSE (IF Get(Head(blocks), "type", None) = "text" THEN text_of(Head(blocks)) ELSE <<>>)
         \o BlocksText(Tail(blocks))

_extract_text(msg) == BlocksText(get_content_blocks(msg))

\* lines 25-43: what the substitutions of _clean_user_text remove
NoiseSymbols ==
    {"<system-reminder/>", "<local-command-caveat/>", "<command-name/>",
     "<command-message/>", "<command-args/>", "<local-command-stdout/>",
     "<tag/>", "SessionStart:", "[Request interrupted by user]", "#", "##"}

IsWord(w) == w \notin NoiseSymbols

\* lines 22-47
_clean_user_text(text) == SelectSeq(text, IsWord)

\* lines 50-59: up to the first mark that ends a sentence and is followed
\* by whitespace, when that is early enough; else the text cut to max_len
_first_sentence(text, max_len) ==
    LET window == SubSeq(text, 1, Min(Len(text), max_len + 50))
        marks  == {i \in 1..(Len(window) - 1) : window[i] \in {".", "!", "?"}}
        first  == CHOOSE i \in marks : \A j \in marks : i <= j
    IN  IF marks # {} /\ first + 1 <= max_len + 10
        THEN SubSeq(text, 1, first)
        ELSE IF Len(text) > max_len
        THEN SubSeq(text, 1, max_len - 3) \o Ellipsis
        ELSE text

\* lines 62-65
_clean_assistant_text(text) == _first_sentence(text, 100)

\* lines 74-91: the turns of the log
RECURSIVE Turns(_)
Turns(entries) ==
    IF entries = <<>> THEN <<>>
    ELSE LET msg      == Head(entries)[2]
             msg_type == get_msg_type(msg)
             text     == IF msg_type = "user"
                         THEN _clean_user_text(_extract_text(msg))
                         ELSE _clean_assistant_text(_extract_text(msg))
         IN  (IF msg_type \in {"user", "assistant"} /\ Len(text) >= 3
              THEN <<<<IF msg_type = "user" THEN "you" ELSE "claude", text>>>>
              ELSE <<>>)
             \o Turns(Tail(entries))

\* lines 97-105: consecutive turns of one role become one turn
RECURSIVE MergeTurns(_, _)
MergeTurns(merged_turns, turns) ==
    IF turns = <<>> THEN merged_turns
    ELSE LET role == Head(turns)[1]
             text == Head(turns)[2]
             n    == Len(merged_turns)
         IN  MergeTurns(
                 IF n > 0 /\ merged_turns[n][1] = role
                 THEN IF role = "claude" THEN merged_turns
                      ELSE [merged_turns EXCEPT ![n] = <<role, @[2] \o text>>]
                 ELSE Append(merged_turns, <<role, text>>),
                 Tail(turns))

\* lines 108-124: a user turn with the answer that follows it, or a turn
\* of the assistant alone
RECURSIVE PairUp(_, _)
PairUp(merged_turns, i) ==
    IF i > Len(merged_turns) THEN <<>>
    ELSE IF merged_turns[i][1] = "you"
    THEN IF i + 1 <= Len(merged_turns) /\ merged_turns[i + 1][1] = "claude"
         THEN <<<<merged_turns[i][2], merged_turns[i + 1][2]>>>> \o PairUp(merged_turns, i + 2)
         ELSE <<<<merged_turns[i][2], <<>>>>>> \o PairUp(merged_turns, i + 1)
    ELSE <<<<(<<>>), merged_turns[i][2]>>>> \o PairUp(merged_turns, i + 1)

Paired(entries) == PairUp(MergeTurns(<<>>, Turns(entries)), 1)

\* line 127
head_count == 4

\* line 128
tail_count(with_max_turns) == with_max_turns - head_count - 1

\* the number of the first exchange of the tail, counted from 0
start_num_from_zero(total, tail) == total - tail

\* line 160
start_num(total, tail) == total - tail + 1

\* s[:n] for n >= 0
SliceTo(s, n) == SubSeq(s, 1, Min(n, Len(s)))

\* s[start:]: a negative start counts from the end, and -0 is 0
SliceFrom(s, start) ==
    IF start >= 0 THEN SubSeq(s, start + 1, Len(s))
    ELSE SubSeq(s, (IF Len(s) + start > 0 THEN Len(s) + start ELSE 0) + 1, Len(s))

Cut(text, limit) ==
    IF Len(text) > limit THEN SubSeq(text, 1, limit - 3) \o Ellipsis ELSE text

\* lines 138-150: the line of an exchange, and the line below it that
\* holds the answer to a user turn
_fmt_pair(num, user, assistant) ==
    IF user # <<>>
    THEN [kind |-> "pair", num |-> num, text |-> Cut(user, 70),
          below |-> IF assistant # <<>> THEN Cut(assistant, 50) ELSE <<>>]
    ELSE [kind |-> "pair", num |-> num, text |-> Cut(assistant, 70), below |-> <<>>]

RecapLine(kind) == [kind |-> kind]

\* enumerate(exchanges, first_num)
FmtPairs(exchanges, first_num) ==
    [k \in DOMAIN exchanges |->
        _fmt_pair(first_num + k - 1, exchanges[k][1], exchanges[k][2])]

\* lines 68-168: the lines of the recap, none when there is no turn
generate_recap(entries, with_max_turns) ==
    LET paired == Paired(entries)
        tail   == tail_count(with_max_turns)
    IN  IF Turns(entries) = <<>> THEN <<>>
        ELSE <<RecapLine("blank"), RecapLine("top"), RecapLine("title"),
               RecapLine("bottom"), RecapLine("blank")>>
             \o (IF Len(paired) <= with_max_turns
                 THEN FmtPairs(paired, 1)
                 ELSE FmtPairs(SliceTo(paired, head_count), 1)
                      \o <<[kind |-> "skipped",
                            skipped |-> Len(paired) - head_count - tail]>>
                      \o FmtPairs(SliceFrom(paired, -tail),
                                  start_num(Len(paired), tail)))
             \o <<RecapLine("blank"), RecapLine("footer"), RecapLine("blank")>>

\* entries of a log to recap: a request, an answer of two sentences, a
\* text too short to be a turn, a request behind a system tag, an answer
\* that only uses a tool, an entry that is no turn, and a request longer
\* than a line of the recap
LongRequest == [i \in 1..71 |-> "x"]

RecapPool ==
    <<Variant("user", List(<<Text(<<"fix", "the", "bug">>)>>), TRUE),
      Variant("assistant", List(<<Text(<<"It", "works", ".", "More", "follows">>)>>), TRUE),
      Variant("user", List(<<Text(<<"ok">>)>>), TRUE),
      Variant("user", List(<<Text(<<"<system-reminder/>", "run", "the", "tests">>)>>), TRUE),
      Variant("assistant", List(<<ToolUse("Bash", [command |-> "ls"])>>), TRUE),
      Variant("system", List(<<Text(<<"hook", "ran", "fine">>)>>), FALSE),
      Variant("user", List(<<Text(LongRequest)>>), TRUE)>>

\* the k-th exchange: a question and its answer
Question(k) == Variant("user", List(<<Text(<<"question", ToString(k), "?">>)>>), TRUE)
Answer(k) ==
    Variant("assistant",
            List(<<Text(<<"answer", ToString(k), ".", "And", "more">>)>>), TRUE)

\* the log of the entries choice names, followed by k exchanges
RecapLog(choice, k) ==
    [i \in 1..(Len(choice) + 2 * k) |->
        IF i <= Len(choice) THEN MkEntry(RecapPool[choice[i]], i - 1)
        ELSE LET j == i - Len(choice)
             IN  MkEntry(IF j % 2 = 1 THEN Question((j + 1) \div 2)
                         ELSE Answer(j \div 2), i - 1)]

InitRecap ==
    /\ \E n \in 0..MaxRecapPrefix : \E choice \in [1..n -> DOMAIN RecapPool] :
       \E k \in 0..MaxExchanges :
          messages = RecapLog(choice, k)
    /\ max_turns \in 1..MaxTurns
    /\ recap = <<>>
    /\ pc = "recap"
    /\ idx = 1
    /\ blk = 0
    /\ scan = EmptyScan
    /\ team_state = NoTeamState
    /\ reducer_input = <<>>
    /\ reducer_output = <<>>
    /\ merged = <<>>
    /\ all_messages = <<>>
    /\ uuid_counter = 0
    /\ session_file = <<>>
    /\ file0 = <<>>
    /\ gpc = "off"
    /\ checkpoints = NoCheckpoints
    /\ events = <<>>
    /\ cycles = 0
    /\ saves = 0
    /\ exists = TRUE
    /\ auto_reload = FALSE
    /\ reloading = FALSE
    /\ appended = <<>>

\* generate_recap, lines 68-168
GenerateRecap ==
    /\ pc = "recap"
    /\ recap' = generate_recap(messages, max_turns)
    /\ pc' = "recapped"
    /\ UNCHANGED <<messages, idx, blk, scan, team_state, reducer_input,
                   reducer_output, merged, all_messages, uuid_counter,
                   guard_vars, max_turns>>

NextRecap == GenerateRecap

SpecRecap == InitRecap /\ [][NextRecap]_vars

(* ------------------------------ claims -------------------------------- *)

Done == pc = "done"
Extracted == pc \in {"prune", "done"}

HasUuid(e) == Truthy(Get(e[2], "uuid", None))

\* the indices of the entries the classifier accepts / rejects
TeamIndices == {i \in DOMAIN messages : _is_team_message(messages[i][2])}
OtherIndices == DOMAIN messages \ TeamIndices

\* the k-th smallest element of a set of indices
Kth(S, k) == CHOOSE i \in S : Cardinality({j \in S : j < i}) = k - 1

\* the entries of msgs at the indices of S, in order
Pick(msgs, S) == [k \in 1..Cardinality(S) |-> msgs[Kth(S, k)]]

Count(s, x) == Cardinality({i \in DOMAIN s : s[i] = x})

\* positions never decrease along s
SortedByPosition(s) == \A i, j \in DOMAIN s : i < j => s[i][1] <= s[j][1]

\* the two entries were appended by the injection
Injected == Done /\ ~is_empty(team_state) /\ Len(all_messages) = Len(merged) + 2

\* the index in the input log of the entry e comes from
Origin(e) == CHOOSE i \in DOMAIN messages : messages[i][2].timestamp = e[2].timestamp

FromInput(e) == \E i \in DOMAIN messages : messages[i][2].timestamp = e[2].timestamp

\* C1: every entry the classifier accepts is in the sequence
\* prune_with_team_protect returns, with its position and its content.
C1_ProtectedEntriesSurvive ==
    Done => \A i \in TeamIndices : \E j \in DOMAIN all_messages : all_messages[j] = messages[i]

\* C1 amended: when the extracted team state is not empty, every entry the
\* classifier accepts is in the returned sequence, with its position and
\* its content.
C1_ProtectedSurviveWhenTeam ==
    (Done /\ ~is_empty(team_state)) =>
        \A i \in TeamIndices : \E j \in DOMAIN all_messages : all_messages[j] = messages[i]

\* C1 witness: two protected entries, and a Reducer that dropped all it got
C1_Witness ==
    /\ Done /\ ~is_empty(team_state)
    /\ Cardinality(TeamIndices) >= 2
    /\ reducer_input # <<>>
    /\ reducer_output = <<>>

\* the last entry of the merged sequence that carries a non-empty uuid
LastResolvable ==
    merged[CHOOSE i \in DOMAIN merged :
              HasUuid(merged[i]) /\ \A j \in DOMAIN merged : j > i => ~HasUuid(merged[j])][2]

\* C2: after the injection the user entry's parentUuid is the uuid of the
\* last entry that carried one, the assistant entry's parentUuid is the user
\* entry's uuid, both carry that entry's sessionId, cwd and gitBranch, and
\* the two uuids differ from each other and from every uuid of the log.
C2_CausalChain ==
    Injected =>
        LET n == Len(all_messages)
            user == all_messages[n - 1][2]
            asst == all_messages[n][2]
            last == LastResolvable
        IN  /\ user.parentUuid = last.uuid
            /\ asst.parentUuid = user.uuid
            /\ \A m \in {user, asst} :
                  /\ m.sessionId = last.sessionId
                  /\ m.cwd = last.cwd
                  /\ m.gitBranch = last.gitBranch
            /\ user.uuid # asst.uuid
            /\ \A i \in DOMAIN merged :
                  Get(merged[i][2], "uuid", None) \notin {user.uuid, asst.uuid}

\* C2 witness: an injection onto a log with two uuids whose last entry
\* carries none
C2_Witness ==
    /\ Injected
    /\ Cardinality({i \in DOMAIN merged : HasUuid(merged[i])}) >= 2
    /\ ~HasUuid(merged[Len(merged)])

\* C3: when the Reducer returns its entries with monotonic positions, the
\* returned sequence is sorted by position, the injected entries included.
C3_OutputSorted ==
    (Done /\ SortedByPosition(reducer_output)) => SortedByPosition(all_messages)

\* C3 witness: the Reducer renumbered an entry to a position above a
\* protected entry that came after it, and two entries were injected
C3_Witness ==
    /\ Injected
    /\ SortedByPosition(reducer_output)
    /\ \E k \in DOMAIN reducer_output, i \in TeamIndices :
          Origin(reducer_output[k]) < i /\ reducer_output[k][1] >= messages[i][1]

\* the Reducer returned a subsequence of what it was handed, with monotonic
\* positions, none greater than the entry's original position
SubsequenceNoGreater ==
    /\ SortedByPosition(reducer_output)
    /\ \A k \in DOMAIN reducer_output :
          \E i \in DOMAIN reducer_input :
             /\ reducer_input[i][2] = reducer_output[k][2]
             /\ reducer_output[k][1] <= reducer_input[i][1]
    /\ \A k, l \in DOMAIN reducer_output :
          k < l => Origin(reducer_output[k]) < Origin(reducer_output[l])

\* the entries of the output that come from the input log
Survivors == {j \in DOMAIN all_messages : FromInput(all_messages[j])}

RetainedPosition(e) == e[1] = messages[Origin(e)][1]

C5_EmptyDelegates ==
    /\ (Extracted /\ TeamIndices = {}) =>
          is_empty(team_state) /\ team_state.message_count = 0
    /\ (Done /\ TeamIndices = {}) =>
          /\ reducer_input = messages
          /\ all_messages = reducer_output
          /\ uuid_counter = 0
          /\ \A j \in DOMAIN all_messages : FromInput(all_messages[j])

\* C5 witness: a log of chat entries, one with a uuid, that the Reducer
\* shortened
C5_Witness ==
    /\ Done /\ TeamIndices = {}
    /\ \E i \in DOMAIN messages : HasUuid(messages[i])
    /\ reducer_output # <<>>
    /\ Len(reducer_output) < Len(messages)

\* the number of entries the injection adds to the merged sequence
InjectedCount ==
    IF \E i \in TeamIndices : HasUuid(messages[i]) THEN 2
    ELSE IF \E k \in DOMAIN reducer_output : HasUuid(reducer_output[k]) THEN 2
    ELSE 0

\* C6: with a non-empty team state the Reducer is handed the entries the
\* classifier rejects, in order, and the output holds the protected
\* entries, the entries the Reducer returned and, when one of them carries
\* a uuid, two injected entries at the end: nothing else, nothing twice.
C6_ExactOutput ==
    (Done /\ ~is_empty(team_state)) =>
        LET protected == Pick(messages, TeamIndices)
            body == SubSeq(all_messages, 1, Len(all_messages) - InjectedCount)
        IN  /\ reducer_input = Pick(messages, OtherIndices)
            /\ Len(all_messages) = Len(protected) + Len(reducer_output) + InjectedCount
            /\ \A j \in DOMAIN body :
                  Count(body, body[j]) = Count(protected, body[j]) + Count(reducer_output, body[j])
            /\ \A j \in DOMAIN all_messages :
                  j > Len(body) =>
                     /\ ~FromInput(all_messages[j])
                     /\ all_messages[j][2].uuid = Uuid4(j - Len(body) - 1)

\* C6 witness: protected entries, a Reducer that dropped some entries and
\* kept others, and an injection
C6_Witness ==
    /\ Injected
    /\ reducer_output # <<>>
    /\ Len(reducer_output) < Len(reducer_input)
    /\ Cardinality(TeamIndices) >= 1

(* ----------------------- claims on the extractor ---------------------- *)

Max(S) == CHOOSE x \in S : \A y \in S : y <= x

\* C7: message_count is the number of entries the classifier accepts and
\* last_coordination_index the highest position among them, -1 without any.
C7_CountAndLastIndex ==
    Extracted =>
        /\ team_state.message_count = Cardinality(TeamIndices)
        /\ team_state.last_coordination_index =
              IF TeamIndices = {} THEN -1 ELSE Max({messages[i][1] : i \in TeamIndices})

\* C7 witness: two accepted entries, then one the classifier rejects
C7_Witness ==
    /\ Extracted
    /\ Cardinality(TeamIndices) >= 2
    /\ messages # <<>> /\ Len(messages) \notin TeamIndices
    /\ 1 \in TeamIndices

\* the tool_use blocks of the log, in order
RECURSIVE ToolUses(_)
ToolUses(msgs) ==
    IF msgs = <<>> THEN <<>>
    ELSE SelectSeq(ContentBlocks(Head(msgs)[2]), LAMBDA b : b.type = "tool_use")
         \o ToolUses(Tail(msgs))

\* the inputs of the team-creation invocations of the log, in order
TeamCreates ==
    LET uses == SelectSeq(ToolUses(messages), LAMBDA b : b.name = "TeamCreate")
    IN  [k \in DOMAIN uses |-> uses[k].input]

\* the names the team-creation invocations carry, in order
NamesGiven ==
    LET given == SelectSeq(TeamCreates, LAMBDA inp : "name" \in DOMAIN inp)
    IN  [k \in DOMAIN given |-> given[k].name]

FirstNonEmptyName ==
    LET named == SelectSeq(NamesGiven, LAMBDA n : n # "")
    IN  IF named = <<>> THEN "" ELSE named[1]

LastGivenName == IF NamesGiven = <<>> THEN "" ELSE NamesGiven[Len(NamesGiven)]

\* C8 as stated: team_name is the first non-empty name observed.
C8_FirstNameWins == Extracted => team_state.team_name = FirstNonEmptyName

\* C8 amended: team_name is the name of the last team-creation invocation
\* that carries a name; an invocation without one leaves it as it is.
C8_LastGivenNameWins == Extracted => team_state.team_name = LastGivenName

\* C8 witness: two team creations with different non-empty names
C8_Witness ==
    /\ Extracted
    /\ \E k, l \in DOMAIN NamesGiven :
          k < l /\ NamesGiven[k] # "" /\ NamesGiven[l] # "" /\ NamesGiven[k] # NamesGiven[l]

\* the teammate descriptors of the team-creation invocations, in order
RECURSIVE Flatten(_)
Flatten(ss) == IF ss = <<>> THEN <<>> ELSE Head(ss) \o Flatten(Tail(ss))

Descriptors == Flatten([k \in DOMAIN TeamCreates |-> Get(TeamCreates[k], "teammates", <<>>)])

\* the agent id of a descriptor: agentId, or agent_id when agentId is absent
DescriptorId(tm) ==
    IF "agentId" \in DOMAIN tm THEN tm.agentId
    ELSE IF "agent_id" \in DOMAIN tm THEN tm.agent_id ELSE ""

DescribedIds == {DescriptorId(Descriptors[k]) : k \in DOMAIN Descriptors} \ {""}

LastDescriptor(id) ==
    Descriptors[Max({k \in DOMAIN Descriptors : DescriptorId(Descriptors[k]) = id})]

TeammateIds(ts) == {ts[i].agent_id : i \in DOMAIN ts}

\* C9: the state holds one Teammate for each non-empty agent id of a
\* team-creation invocation, as the last invocation that names it describes
\* it and with the status last set; no step of the scan removes a teammate.
C9_OneTeammatePerId ==
    /\ [](Extracted =>
            /\ Len(team_state.teammates) = Cardinality(DescribedIds)
            /\ TeammateIds(team_state.teammates) = DescribedIds
            /\ \A i \in DOMAIN team_state.teammates :
                  LET t == team_state.teammates[i]
                      d == LastDescriptor(t.agent_id)
                  IN  t.status = "running" /\ t.name = Get(d, "name", t.agent_id))
    /\ [][TeammateIds(scan.seen_teammates) \subseteq TeammateIds(scan'.seen_teammates)]_vars

\* C9 witness: two teammates, one of them described twice under two names
C9_Witness ==
    /\ Extracted
    /\ Len(team_state.teammates) >= 2
    /\ \E k, l \in DOMAIN Descriptors :
          /\ k < l
          /\ DescriptorId(Descriptors[k]) = DescriptorId(Descriptors[l])
          /\ DescriptorId(Descriptors[k]) # ""
          /\ Get(Descriptors[k], "name", "") # Get(Descriptors[l], "name", "")

\* the scan is about to interpret a task creation that carries no task id
AtTaskCreateWithoutId ==
    /\ pc = "scan"
    /\ blk >= 1
    /\ LET b == ContentBlocks(messages[idx][2])[blk]
       IN  /\ b.type = "tool_use"
           /\ b.name = "TaskCreate"
           /\ "taskId" \notin DOMAIN b.input
           /\ "id" \notin DOMAIN b.input

\* C10: a task creation without a task id adds one Task and leaves every
\* task recorded before as it was.
C10_SynthesizedKeyIsNew ==
    [][AtTaskCreateWithoutId =>
          /\ Len(scan'.seen_tasks) = Len(scan.seen_tasks) + 1
          /\ \A i \in DOMAIN scan.seen_tasks : scan'.seen_tasks[i] = scan.seen_tasks[i]]_vars

\* the scan is about to interpret a task update; its input and task id
AtTaskUpdate ==
    /\ pc = "scan"
    /\ blk >= 1
    /\ LET b == ContentBlocks(messages[idx][2])[blk]
       IN  b.type = "tool_use" /\ b.name = "TaskUpdate"

UpdateInput == ContentBlocks(messages[idx][2])[blk].input

UpdateId ==
    IF "taskId" \in DOMAIN UpdateInput THEN UpdateInput.taskId
    ELSE IF "id" \in DOMAIN UpdateInput THEN UpdateInput.id ELSE ""

TaskIds(ts) == {ts[i].task_id : i \in DOMAIN ts}

\* C11: a task update whose task id names no recorded task adds one Task
\* after the others, with that id, the status the update carries (unknown
\* when it carries none), the subject it carries (empty when it carries
\* none), and leaves every task recorded before as it was.
C11_UnseenUpdateAddsTask ==
    [][(AtTaskUpdate /\ UpdateId \notin TaskIds(scan.seen_tasks)) =>
          LET n == Len(scan.seen_tasks)
              new == scan'.seen_tasks[n + 1]
          IN  /\ Len(scan'.seen_tasks) = n + 1
              /\ \A i \in 1..n : scan'.seen_tasks[i] = scan.seen_tasks[i]
              /\ new.task_id = UpdateId
              /\ new.status = (IF "status" \in DOMAIN UpdateInput
                               THEN UpdateInput.status ELSE "unknown")
              /\ new.subject = (IF "subject" \in DOMAIN UpdateInput
                                THEN UpdateInput.subject ELSE "")]_vars

\* C11 witness: after a task creation, updates of unrecorded tasks added a
\* task with the default status and a task with the status of the update
C11_Witness ==
    /\ pc = "scan"
    /\ Len(scan.seen_tasks) >= 3
    /\ scan.seen_tasks[1].status = "pending"
    /\ \E i, j \in DOMAIN scan.seen_tasks :
          /\ scan.seen_tasks[i].status = "unknown" /\ scan.seen_tasks[i].subject = "E"
          /\ scan.seen_tasks[j].status = "in_progress" /\ scan.seen_tasks[j].subject = ""

\* C12: a task update whose task id names a recorded task replaces that
\* task's status and owner only by the non-empty values it carries; the
\* task's id, subject and description, the other tasks and the order of
\* the tasks stay as they were.
C12_KnownUpdateKeepsIdentity ==
    [][(AtTaskUpdate /\ UpdateId \in TaskIds(scan.seen_tasks)) =>
          /\ Len(scan'.seen_tasks) = Len(scan.seen_tasks)
          /\ \A i \in DOMAIN scan.seen_tasks :
                LET old == scan.seen_tasks[i]
                    new == scan'.seen_tasks[i]
                IN  IF old.task_id # UpdateId THEN new = old
                    ELSE /\ new.task_id = old.task_id
                         /\ new.subject = old.subject
                         /\ new.description = old.description
                         /\ new.status =
                               (IF "status" \in DOMAIN UpdateInput /\ UpdateInput.status # ""
                                THEN UpdateInput.status ELSE old.status)
                         /\ new.owner =
                               (IF "owner" \in DOMAIN UpdateInput /\ UpdateInput.owner # ""
                                THEN UpdateInput.owner ELSE old.owner)]_vars

\* C12 witness: a task created with a subject whose update carried an
\* empty status and an owner: the owner is replaced, the status is not
C12_Witness ==
    /\ pc = "scan"
    /\ \E i \in DOMAIN scan.seen_tasks :
          /\ scan.seen_tasks[i].task_id = "T9"
          /\ scan.seen_tasks[i].subject = "D"
          /\ scan.seen_tasks[i].status = "pending"
          /\ scan.seen_tasks[i].owner = "a2"

(* ------------------------ claims on the injector ---------------------- *)

\* the team state names no team, no teammate and no task
StateEmpty ==
    team_state.team_name = "" /\ Len(team_state.teammates) = 0 /\ Len(team_state.tasks) = 0

NoUuid(msgs) == \A i \in DOMAIN msgs : ~HasUuid(msgs[i])

\* inject_team_recovery has returned: called alone, or last in the pruning
InjectReturned == pc = "injected" \/ (Done /\ ~StateEmpty)

\* C13: inject_team_recovery returns the list it was passed whenever the
\* team state is empty and whenever no entry of the list carries a
\* non-empty uuid; in the pruning that second case gives the merged
\* sequence of the protected and the reduced entries, nothing drawn.
C13_NoInjectionReturnsInput ==
    /\ (InjectReturned /\ (StateEmpty \/ NoUuid(merged))) =>
          all_messages = merged /\ uuid_counter = 0
    /\ (Done /\ ~StateEmpty /\ NoUuid(merged)) =>
          /\ Len(merged) = Cardinality(TeamIndices) + Len(reducer_output)
          /\ \A i \in TeamIndices : \E j \in DOMAIN all_messages : all_messages[j] = messages[i]
          /\ \A k \in DOMAIN reducer_output :
                \E j \in DOMAIN all_messages : all_messages[j] = reducer_output[k]

\* C13 witness: a non-empty team state whose protected entries carry no
\* uuid, and a Reducer that dropped the entry that carried one
C13_Witness ==
    /\ Done /\ ~StateEmpty
    /\ merged # <<>> /\ NoUuid(merged)
    /\ reducer_output # <<>>
    /\ \E i \in DOMAIN messages : HasUuid(messages[i])

\* the entries were appended: the state is not empty and an entry of the
\* list passed carries a uuid
Appended == InjectReturned /\ ~StateEmpty /\ ~NoUuid(merged)

\* C14: when it injects, inject_team_recovery returns the entries it was
\* passed, unchanged and in order, followed by a user entry and an
\* assistant entry at the positions one and two above the highest
\* position of the list; the list the caller passed is left as it was.
C14_AppendsTwoAtEnd ==
    /\ [](Appended =>
            LET n == Len(merged)
                top == Max({merged[i][1] : i \in DOMAIN merged})
            IN  /\ Len(all_messages) = n + 2
                /\ SubSeq(all_messages, 1, n) = merged
                /\ all_messages[n + 1][1] = top + 1
                /\ all_messages[n + 2][1] = top + 2
                /\ all_messages[n + 1][2].type = "user"
                /\ all_messages[n + 1][2].message.role = "user"
                /\ all_messages[n + 2][2].type = "assistant"
                /\ all_messages[n + 2][2].message.role = "assistant")
    /\ [][(pc = "prune" /\ pc' = "injected") => messages' = messages /\ merged' = messages]_vars

\* C14 witness: an injection onto a merged sequence with a gap in its
\* positions, and an injection by the call on the loaded log
C14_Witness ==
    /\ Appended
    /\ Len(merged) >= 2
    /\ merged[Len(merged)][1] > Len(merged) - 1

(* ---------------------- claims on the lead summary -------------------- *)

\* the assistant entries the classifier accepts
AssistantTeamIndices == {i \in TeamIndices : messages[i][2].type = "assistant"}

\* the texts of the text blocks of an entry, in order
BlockTexts(msg) ==
    LET blocks == SelectSeq(ContentBlocks(msg), LAMBDA b : b.type = "text")
    IN  [k \in DOMAIN blocks |-> blocks[k].text]

\* the text fragments of the assistant coordination entries, in log order
Fragments ==
    Flatten([k \in 1..Cardinality(AssistantTeamIndices) |->
                BlockTexts(messages[Kth(AssistantTeamIndices, k)][2])])

\* the first n symbols of a text
Take(text, n) == [i \in 1..(IF Len(text) <= n THEN Len(text) ELSE n) |-> text[i]]

Separator == <<"[...]">>

\* C17: lead_summary is the last three text fragments of the assistant
\* coordination entries, in log order, each cut to its first 300 symbols,
\* joined by the separator; it is empty when there is no fragment.
C17_LeadSummary ==
    Extracted =>
        LET m == Len(Fragments)
            f(k) == Take(Fragments[k], 300)
        IN  team_state.lead_summary =
               CASE m = 0 -> <<>>
                 [] m = 1 -> f(1)
                 [] m = 2 -> f(1) \o Separator \o f(2)
                 [] OTHER -> f(m - 2) \o Separator \o f(m - 1) \o Separator \o f(m)

\* C17 witness: more than four fragments, the first short, the last
\* longer than 300 symbols, the one before it short
C17_Witness ==
    /\ Extracted
    /\ Len(Fragments) >= 5
    /\ Len(Fragments[Len(Fragments)]) > 300
    /\ Len(Fragments[Len(Fragments) - 1]) < 300
    /\ Len(Fragments[1]) < 300

(* -------------------- claims on the protected state ------------------- *)

\* the Reducer returned some of the entries it was handed, each as it was
\* and in the order they had
UnmodifiedSubsequence ==
    \E S \in SUBSET DOMAIN reducer_input : reducer_output = Pick(reducer_input, S)

\* the team, the teammates and the tasks extracted from the returned log
\* are those extracted from the input log
SameTeamAfterPrune ==
    LET after == extract_team_state(all_messages)
    IN  /\ after.team_name = team_state.team_name
        /\ after.teammates = team_state.teammates
        /\ after.tasks = team_state.tasks

\* C19 as stated: for every log, when the Reducer returns an unmodified
\* subsequence, the log prune_with_team_protect returns yields the team
\* name, teammates and tasks the input log yields.
C19_StatePreserved == (Done /\ UnmodifiedSubsequence) => SameTeamAfterPrune

\* C19 on the logs that yield a team: for every log whose extracted team
\* state is not empty, when the Reducer returns an unmodified subsequence,
\* the log prune_with_team_protect returns yields the team name, teammates
\* and tasks the input log yields.
C19_StatePreservedWhenTeam ==
    (Done /\ UnmodifiedSubsequence /\ ~StateEmpty) => SameTeamAfterPrune

\* C19 witness: a team with a teammate, a Reducer that dropped one entry
\* and kept another, and an injection
C19_Witness ==
    /\ Injected /\ UnmodifiedSubsequence
    /\ team_state.teammates # <<>>
    /\ reducer_output # <<>>
    /\ Len(reducer_output) < Len(reducer_input)

(* ------------------------ claims on the guard ------------------------- *)

\* the current cycle has made the call op, and it returned / it raised
Called(op, ok) == \E k \in DOMAIN events : events[k].op = op /\ events[k].ok = ok

CalledAtAll(op) == \E k \in DOMAIN events : events[k].op = op

ProjectWriteFailed ==
    \E k \in DOMAIN events :
        events[k] = Event("write_team_checkpoint", "project", FALSE)

\* the project directory was missing when the checkpoint was written
ProjectDirMissing ==
    \E k \in DOMAIN events : events[k] = Event("exists", "project", FALSE)

\* C16 as stated: when the write of the checkpoint to the project
\* directory fails, the checkpoint is written to the secondary location
\* and the cycle does not fail.
C16_FallbackOnWriteFailure ==
    ProjectWriteFailed =>
        /\ gpc # "failed"
        /\ checkpoints.home = to_markdown(team_state)

\* C16, what the cycle does: when the project directory is missing the
\* checkpoint goes to the secondary location, and when that write returns
\* the cycle goes on to save_messages; a checkpoint write that raises, in
\* either place, fails the cycle before save_messages is called.
C16_FallbackWhenDirMissing ==
    /\ (ProjectDirMissing /\ Called("write_team_checkpoint", TRUE)) =>
          /\ checkpoints.home = to_markdown(team_state)
          /\ gpc = "checkpointed" \/ CalledAtAll("save_messages")
    /\ Called("write_team_checkpoint", FALSE) =>
          /\ gpc = "failed"
          /\ ~CalledAtAll("save_messages")
          /\ session_file = SavedLines(messages) \o appended

\* C16 witness: the project directory was missing, the checkpoint went
\* to the secondary location and the pruned log was saved
C16_Witness ==
    /\ ProjectDirMissing
    /\ Called("save_messages", TRUE)
    /\ checkpoints.project = <<>>
    /\ checkpoints.home # <<>>
    /\ session_file # SavedLines(messages)

\* the lines of the session file that hold an injected entry
InjectedLines ==
    {i \in DOMAIN session_file :
        \E k \in 0..(uuid_counter - 1) : Get(session_file[i], "uuid", None) = Uuid4(k)}

\* the index in events of the call op that returned
CallIndex(op) == CHOOSE k \in DOMAIN events : events[k].op = op /\ events[k].ok

TeamAtStart == ~is_empty(extract_team_state(load_messages(file0)))

UuidAtStart == \E i \in DOMAIN file0 : Truthy(Get(file0[i], "uuid", None))

ProtectedUuidAtStart ==
    \E i \in DOMAIN file0 :
        _is_team_message(file0[i]) /\ Truthy(Get(file0[i], "uuid", None))

InjectedUuids(file) ==
    {file[i].uuid : i \in {j \in DOMAIN file : "userType" \in DOMAIN file[j]}}

\* C20 as stated: on a session with a non-empty team state and an entry
\* that carries a uuid, the file holds two injected entries for each cycle
\* that saved it.
C20_TwoPerCycle ==
    (TeamAtStart /\ UuidAtStart) => Cardinality(InjectedLines) = 2 * saves

\* C20 amended: on a session with a non-empty team state and a
\* coordination-relevant entry that carries a uuid, the file holds two
\* injected entries for each cycle that saved it, and no save removes an
\* injected entry.
C20_TwoPerCycleProtectedUuid ==
    /\ []((TeamAtStart /\ ProtectedUuidAtStart) => Cardinality(InjectedLines) = 2 * saves)
    /\ [][(TeamAtStart /\ ProtectedUuidAtStart) =>
             InjectedUuids(session_file) \subseteq InjectedUuids(session_file')]_vars

\* C20 witness: two cycles saved the file, four injected entries, and the
\* Reducer dropped an entry
C20_Witness ==
    /\ TeamAtStart /\ ProtectedUuidAtStart
    /\ saves = 2
    /\ Cardinality(InjectedLines) = 4
    /\ Len(session_file) < Len(file0) + 4

(* ------------------------ guard: concurrent append --------------------- *)

\* the entries of the session file
FileEntries == {session_file[i] : i \in DOMAIN session_file}

\* C21: an entry the assistant appended to the session file after the
\* cycle loaded it and before the cycle saved is in the session file after
\* the save.
C21_AppendedEntrySurvivesSave ==
    gpc = "saved" => \A i \in DOMAIN appended : appended[i] \in FileEntries

\* C21 witness: the cycle saved a file to which the assistant had appended
\* an entry since the load
C21_Witness ==
    /\ gpc = "saved"
    /\ appended # <<>>
    /\ Called("load_messages", TRUE)
    /\ Called("save_messages", TRUE)

(* ----------------------------- guard: reload --------------------------- *)

\* a call of the cycle failed
CycleFailed ==
    \/ Called("run_prescription", FALSE)
    \/ Called("write_team_checkpoint", FALSE)
    \/ Called("save_messages", FALSE)

\* C22: the reload watcher is spawned only after save_messages has
\* returned for the pruned log; a cycle in which pruning, writing the
\* checkpoint or saving fails spawns no watcher and reports no reload; and
\* with auto_reload disabled no cycle reports reloading.
C22_ReloadOnlyAfterSave ==
    /\ CalledAtAll("_spawn_reload_watcher") =>
          /\ Called("save_messages", TRUE)
          /\ session_file = SavedLines(all_messages)
          /\ CallIndex("save_messages") < CallIndex("_spawn_reload_watcher")
    /\ CycleFailed =>
          /\ ~CalledAtAll("_spawn_reload_watcher")
          /\ ~CalledAtAll("_find_claude_pid")
          /\ ~reloading
    /\ ~auto_reload =>
          /\ ~reloading
          /\ ~CalledAtAll("_spawn_reload_watcher")

\* C22 witness: a cycle with auto_reload saved the pruned log, found the
\* process, spawned the watcher and reported reloading
C22_Witness ==
    /\ auto_reload
    /\ reloading
    /\ Called("save_messages", TRUE)
    /\ Called("_spawn_reload_watcher", TRUE)
    /\ Len(all_messages) < Len(messages)

(* ------------------------------ guard: loop ---------------------------- *)

\* C23: a prune cycle starts only at a poll that finds the session file
\* and finds its size at or above threshold_bytes; a poll that finds the
\* file missing ends the loop, a cycle that reports reloading ends the
\* loop, and after the loop has ended no prune cycle starts.
C23_CycleOnlyAboveThreshold ==
    /\ [][cycles' # cycles =>
             /\ gpc = "idle" /\ gpc' = "polled"
             /\ exists
             /\ FileSize(session_file) >= threshold_bytes
             /\ cycles' = cycles + 1]_vars
    /\ [][(gpc = "idle" /\ ~exists) => (gpc' = "exited" /\ cycles' = cycles)]_vars
    /\ [](reloading => gpc = "exited")
    /\ [][gpc = "exited" => (gpc' = "exited" /\ cycles' = cycles)]_vars

\* C23 witness: the guard ran a cycle on a file at the threshold, the
\* cycle saved a file below the threshold without reloading, the file
\* disappeared, and the next poll ended the loop
C23_Witness ==
    /\ gpc = "exited"
    /\ ~exists
    /\ ~reloading
    /\ cycles = 1
    /\ saves = 1
    /\ FileSize(file0) >= threshold_bytes
    /\ FileSize(session_file) < threshold_bytes

(* ------------------------------- recap --------------------------------- *)

IsPairLine(line) == line.kind = "pair"

IsSkippedLine(line) == line.kind = "skipped"

\* the lines of the recap that show an exchange, and the lines that
\* report a gap
PairLines == SelectSeq(recap, IsPairLine)

SkippedLines == SelectSeq(recap, IsSkippedLine)

\* the recap of more than max_turns exchanges shows the first 4 and the
\* last max_turns - 5 of them, each once and under its number in the full
\* list, and reports the rest as skipped
Bookends ==
    LET paired == Paired(messages)
        total  == Len(paired)
        tail   == max_turns - 5
    IN  /\ Len(PairLines) = 4 + tail
        /\ \A j \in 1..Len(PairLines) :
              /\ PairLines[j].num = (IF j <= 4 THEN j ELSE total - tail + (j - 4))
              /\ PairLines[j].num \in 1..total
              /\ PairLines[j] = _fmt_pair(PairLines[j].num,
                                          paired[PairLines[j].num][1],
                                          paired[PairLines[j].num][2])
        /\ \A i, j \in 1..Len(PairLines) : i < j => PairLines[i].num < PairLines[j].num
        /\ Len(SkippedLines) = 1
        /\ SkippedLines[1].skipped = total - Len(PairLines)
        /\ Len(PairLines) + SkippedLines[1].skipped = total

\* C24 as stated: for every max_turns >= 1, the recap of more than
\* max_turns exchanges shows the first 4 and the last max_turns - 5, each
\* once and under its number in the full list, and the skipped count is
\* the number of exchanges not shown.
C24_BookendsAnyMaxTurns ==
    (pc = "recapped" /\ max_turns >= 1 /\ Len(Paired(messages)) > max_turns)
        => Bookends

\* C24 for max_turns >= 6, where the tail holds at least one exchange: the
\* recap of more than max_turns exchanges shows the first 4 and the last
\* max_turns - 5, each once and under its number in the full list, and the
\* skipped count is the number of exchanges not shown.
C24_BookendsFromSix ==
    (pc = "recapped" /\ max_turns >= 6 /\ Len(Paired(messages)) > max_turns)
        => Bookends

\* C24 witness: a recap of 9 exchanges under max_turns 6 that skips 4 of
\* them, the first of the exchanges an answer without a question
C24_Witness ==
    /\ pc = "recapped"
    /\ max_turns = 6
    /\ Len(Paired(messages)) = 9
    /\ Paired(messages)[1][1] = <<>>
    /\ Len(SkippedLines) = 1
    /\ SkippedLines[1].skipped = 4
    /\ Len(PairLines) = 5

====
